---------------------------- MODULE Spec2Model ----------------------------
(***************************************************************************)
(* Model of the arrests-data pipeline of "project 3 CE888":                *)
(*   wrangle_data.py : fetch_data, clean_data, filter_df, plot_data        *)
(*   ukcrime/views.py: index                                               *)
(*                                                                         *)
(* Text that the code inspects character by character (the arrest count,   *)
(* the rate, the ethnicity) is a tuple of one-character strings, so that   *)
(* regex stripping, int(), str.lower() and substring tests are computed.   *)
(* Text that the code only compares and sorts (Time, Geography, Gender,    *)
(* Age_Group) is a TLA+ string with an explicit sort order.                *)
(***************************************************************************)
EXTENDS Integers, Sequences, FiniteSets, TLC

VARIABLES
    remote,     \* what the URL serves: [kind, rows]
    call,       \* the function called last ("none" before any call)
    how_arg,    \* the `how` argument of the last filter_df call
    err,        \* the exception the last call raised ("" when it returned)
    cause,      \* the exception the raised error carries as its cause ("" none)
    returned,   \* the kind of value the last call returned ("" when it raised)
    df,         \* the table the last fetch_data / clean_data / filter_df call returned
    cols,       \* the column names of that table
    views,      \* per filter mode, the view filter_df returned last to the caller
    figures,    \* the chart list the last plot_data call returned
    ids,        \* the html ids index() derived from the chart list
    gets,       \* HTTP GETs issued by the last call
    printed,    \* what the last call printed
    locals      \* plot_data's local values at its return (ranking, pivots)

vars == <<remote, call, how_arg, err, cause, returned, df, cols, views, figures, ids,
          gets, printed, locals>>

---------------------------------------------------------------------------
(* Characters and text *)

Digits == <<"0","1","2","3","4","5","6","7","8","9">>
UpperCase == <<"A","B","C","D","E","F","G","H","I","J","K","L","M","N","O","P","Q","R","S","T","U","V","W","X","Y","Z">>
LowerCase == <<"a","b","c","d","e","f","g","h","i","j","k","l","m","n","o","p","q","r","s","t","u","v","w","x","y","z">>

\* The characters of the model in code-point order (Python compares str by code point).
Chars == <<" ", "*", ",", "-", "/">> \o Digits \o UpperCase \o <<"_">> \o LowerCase

Range(s) == { s[i] : i \in DOMAIN s }

IndexOf(s, x) == CHOOSE i \in DOMAIN s : s[i] = x

Ord(c) == IndexOf(Chars, c)

DigitSet == Range(Digits)

UpperSet == Range(UpperCase)

LowerSet == Range(LowerCase)

IsDigit(c) == c \in DigitSet

\* str.lower() on one character
LowerChar(c) == IF c \in UpperSet THEN LowerCase[IndexOf(UpperCase, c)] ELSE c

UpperChar(c) == IF c \in LowerSet THEN UpperCase[IndexOf(LowerCase, c)] ELSE c

\* str.lower()
Lower(s) == [ i \in DOMAIN s |-> LowerChar(s[i]) ]

Upper(s) == [ i \in DOMAIN s |-> UpperChar(s[i]) ]

\* `sub in s` for str
Contains(s, sub) ==
    \E k \in 0 .. (Len(s) - Len(sub)) : \A i \in 1 .. Len(sub) : s[k + i] = sub[i]

\* s < t for str (lexicographic by code point)
StrLess(s, t) ==
    \E k \in 0 .. Len(s) :
        /\ k <= Len(t)
        /\ \A i \in 1 .. k : s[i] = t[i]
        /\ \/ (k = Len(s) /\ k < Len(t))
           \/ (k < Len(s) /\ k < Len(t) /\ Ord(s[k + 1]) < Ord(t[k + 1]))

\* A missing value of a pandas column (float nan); no text is equal to it.
NaN == <<"NaN">>

\* int() of a string of digits
RECURSIVE ParseDigits(_)
ParseDigits(s) ==
    IF s = <<>> THEN 0
    ELSE 10 * ParseDigits(SubSeq(s, 1, Len(s) - 1)) + (IndexOf(Digits, s[Len(s)]) - 1)

\* Text that int() accepts and pandas' CSV reader takes for a whole number:
\* an optional minus sign and one or more digits.
IsIntText(s) ==
    /\ s # NaN
    /\ s # <<>>
    /\ LET body == IF s[1] = "-" THEN Tail(s) ELSE s
       IN  body # <<>> /\ \A i \in DOMAIN body : IsDigit(body[i])

\* int(s) for such a text
ParseInt(s) == IF s[1] = "-" THEN 0 - ParseDigits(Tail(s)) ELSE ParseDigits(s)

S_All == <<"A","l","l">>
S_Unreported == <<"U","n","r","e","p","o","r","t","e","d">>
S_Asian == <<"A","s","i","a","n">>
S_Indian == <<"I","n","d","i","a","n">>
S_Pakistani == <<"P","a","k","i","s","t","a","n","i">>
S_Bangladeshi == <<"B","a","n","g","l","a","d","e","s","h","i">>
S_Any_other_asian == <<"A","n","y"," ","o","t","h","e","r"," ","a","s","i","a","n">>
S_Black_Caribbean == <<"B","l","a","c","k"," ","C","a","r","i","b","b","e","a","n">>
S_Black_African == <<"B","l","a","c","k"," ","A","f","r","i","c","a","n">>
S_Any_other_black_background == <<"A","n","y"," ","o","t","h","e","r"," ","b","l","a","c","k"," ","b","a","c","k","g","r","o","u","n","d">>
S_Black == <<"B","l","a","c","k">>
S_White_Irish == <<"W","h","i","t","e"," ","I","r","i","s","h">>
S_White_British == <<"W","h","i","t","e"," ","B","r","i","t","i","s","h">>
S_White == <<"W","h","i","t","e">>
S_Any_other_white_background == <<"A","n","y"," ","o","t","h","e","r"," ","w","h","i","t","e"," ","b","a","c","k","g","r","o","u","n","d">>
S_Chinese == <<"C","h","i","n","e","s","e">>
S_Other == <<"O","t","h","e","r">>
S_Any_other_ethnic_group == <<"A","n","y"," ","o","t","h","e","r"," ","e","t","h","n","i","c"," ","g","r","o","u","p">>
S_Mixed == <<"M","i","x","e","d">>
S_mixed == <<"m","i","x","e","d">>
S_Arab == <<"A","r","a","b">>
S_Mixed_White_Asian == <<"M","i","x","e","d"," ","W","h","i","t","e","/","A","s","i","a","n">>
S_N_A == <<"N","/","A">>

\* The membership lists of the ethnicity regrouping, in the order the code tests them.
AsianList == {S_Asian, S_Indian, S_Pakistani, S_Bangladeshi, S_Any_other_asian}
BlackList == {S_Black_Caribbean, S_Black_African, S_Any_other_black_background, S_Black}
WhiteList == {S_White_Irish, S_White_British, S_White, S_Any_other_white_background}
OtherList == {S_Chinese, S_Other, S_Any_other_ethnic_group}

---------------------------------------------------------------------------
(* The columns and the order of the values the code sorts *)

\* The time periods, ascending as str.
Times == <<"2016/17", "2017/18", "2018/19">>

\* The header of the CSV, stripped.
RawColumns == {"Time", "Geography", "Gender", "Age_Group", "Ethnicity", "Ethnicity_type",
               "Notes", "Number_of_arrests", "Rate"}

\* The value of column c in row r.
Cell(r, c) ==
    CASE c = "Time" -> r.Time
      [] c = "Geography" -> r.Geography
      [] c = "Gender" -> r.Gender
      [] c = "Age_Group" -> r.Age_Group
      [] c = "Ethnicity_type" -> r.Ethnicity_type
      [] c = "Notes" -> r.Notes

TextCell(r, c) ==
    CASE c = "Ethnicity" -> r.Ethnicity
      [] c = "Number_of_arrests" -> r.Number_of_arrests
      [] c = "Rate" -> r.Rate

TextColumns == {"Ethnicity", "Number_of_arrests", "Rate"}

---------------------------------------------------------------------------
(* fetch_data *)

\* The ways the download can go.
FetchKinds == {"ok", "network_failure", "non_utf8", "empty_body", "malformed_csv"}

\* The exception each failing step raises inside fetch_data's try block.
FetchCause(kind) ==
    CASE kind = "network_failure" -> "ConnectionError"
      [] kind = "non_utf8" -> "UnicodeDecodeError"
      [] kind = "empty_body" -> "EmptyDataError"
      [] kind = "malformed_csv" -> "ParserError"
      [] OTHER -> ""

\* Cell texts pandas' read_csv turns into a missing value.
NaTokens == {<<>>, S_N_A, <<"N","A">>, <<"n","/","a">>, <<"N","a","N">>}

ReadCell(s) == IF s \in NaTokens THEN NaN ELSE s

\* read_csv's view of one CSV line.
ReadRow(r) ==
    [r EXCEPT !.Ethnicity = ReadCell(r.Ethnicity),
              !.Number_of_arrests = ReadCell(r.Number_of_arrests),
              !.Rate = ReadCell(r.Rate)]

\* The except branch of fetch_data: print, then fall off the end (None).
fetch_data_except(kind) ==
    [returns |-> "None", rows |-> <<>>, raised |-> "", cause |-> "",
     printed |-> <<"Unable to fetch dataset from url.", FetchCause(kind)>>,
     gets |-> 1]

\* fetch_data: one GET, decode, read_csv; every exception is caught and printed.
fetch_data(rem) ==
    IF rem.kind = "ok"
    THEN [returns |-> "df",
          rows |-> [ i \in DOMAIN rem.rows |-> ReadRow(rem.rows[i]) ],
          raised |-> "", cause |-> "", printed |-> <<>>, gets |-> 1]
    ELSE fetch_data_except(rem.kind)

---------------------------------------------------------------------------
(* clean_data *)

\* Series.nunique(): distinct values, missing ones not counted.
NUnique(rows, c) ==
    IF c \in TextColumns
    THEN Cardinality({ TextCell(rows[i], c) : i \in DOMAIN rows } \ {NaN})
    ELSE Cardinality({ Cell(rows[i], c) : i \in DOMAIN rows } \ {"NaN"})

\* read_csv gives a column the object dtype when some cell is text that is no number.
IsObjectColumn(rows, c) ==
    \E i \in DOMAIN rows :
        /\ TextCell(rows[i], c) # NaN
        /\ ~ IsIntText(TextCell(rows[i], c))

\* str.replace("[^0-9]", "") as a regular expression: every non-digit goes.
StripNonDigits(s) == SelectSeq(s, IsDigit)

\* CleanArrests with the flag taken from the text before the non-digits are removed.
CleanArrests_FlagBeforeStrip(s) ==
    LET digits == IF s = NaN THEN NaN ELSE StripNonDigits(s)
    IN  [flag |-> IF s = <<>> THEN 1 ELSE 0,
         castable |-> digits # NaN,
         count |-> IF digits = NaN \/ digits = <<>> THEN 0 - 1 ELSE ParseDigits(digits)]

\* Lines 76-83 on one cell: the cleaned count and the flag.
CleanArrests(s) ==
    LET digits == IF s = NaN THEN NaN ELSE StripNonDigits(s)
    IN  [flag |-> IF digits = <<>> THEN 1 ELSE 0,
         castable |-> digits # NaN,
         count |-> IF digits = NaN \/ digits = <<>> THEN 0 - 1 ELSE ParseDigits(digits)]

\* RegroupEthnicity with the 'mixed' test on the value as spelled (no .lower()).
RegroupEthnicity_MixedCaseSensitive(x) ==
    IF x \in AsianList THEN S_Asian
    ELSE IF x \in BlackList THEN S_Black
    ELSE IF x \in WhiteList THEN S_White
    ELSE IF x \in OtherList THEN S_Other
    ELSE IF Contains(x, S_mixed) THEN S_Mixed
    ELSE x

\* The lambda of lines 86-90.
RegroupEthnicity(x) ==
    IF x \in AsianList THEN S_Asian
    ELSE IF x \in BlackList THEN S_Black
    ELSE IF x \in WhiteList THEN S_White
    ELSE IF x \in OtherList THEN S_Other
    ELSE IF Contains(Lower(x), S_mixed) THEN S_Mixed
    ELSE x

\* sort_values(by='Time'): the rows of the time periods from Times[k] on, period by
\* period, the rows of one period in the order they had.
RECURSIVE SortFrom(_, _)
SortFrom(rows, k) ==
    IF k > Len(Times) THEN <<>>
    ELSE LET AtTime(r) == r.Time = Times[k]
         IN  SelectSeq(rows, AtTime) \o SortFrom(rows, k + 1)

SortByTime(rows) == SortFrom(rows, 1)

\* One row of the cleaned table, given the cleaned count; csv_line remembers the
\* line it came from.
CleanRowWith(r, line, a) ==
    [Time |-> r.Time, Geography |-> r.Geography, Gender |-> r.Gender,
     Age_Group |-> r.Age_Group,
     Ethnicity |-> RegroupEthnicity(r.Ethnicity),
     Number_of_arrests |-> a.count,
     Missing_Number_of_Arrests |-> a.flag,
     Rate |-> r.Rate,
     csv_line |-> line]

CleanRow(r, line) == CleanRowWith(r, line, CleanArrests(r.Number_of_arrests))

Raised(e, fetched) ==
    [raised |-> e, cause |-> "", rows |-> <<>>, cols |-> {}, rate_object |-> FALSE,
     gets |-> fetched.gets, printed |-> fetched.printed]

\* Lines 58-63: the columns left after the columns with one distinct value are dropped.
DropLowCardinality(rows) == { c \in RawColumns : NUnique(rows, c) # 1 }

\* Lines 56-92 on the value fetch_data returned, with the columns `kept` by lines 58-63.
CleanFetched(f, kept) ==
    IF f.returns = "None" THEN Raised("AttributeError", f)          \* line 56
    ELSE IF "Notes" \notin kept THEN Raised("KeyError", f)          \* line 66
    ELSE IF "Ethnicity_type" \notin kept THEN Raised("KeyError", f) \* line 69
    ELSE IF "Time" \notin kept THEN Raised("KeyError", f)           \* line 72
    ELSE IF "Number_of_arrests" \notin kept THEN Raised("KeyError", f)   \* line 76
    ELSE IF ~ IsObjectColumn(f.rows, "Number_of_arrests")
         THEN Raised("AttributeError", f)                           \* line 76, .str
    ELSE IF \E i \in DOMAIN f.rows : ~ CleanArrests(f.rows[i].Number_of_arrests).castable
         THEN Raised("ValueError", f)                               \* line 83
    ELSE IF "Ethnicity" \notin kept THEN Raised("AttributeError", f)     \* line 86
    ELSE IF \E i \in DOMAIN f.rows : f.rows[i].Ethnicity = NaN
         THEN Raised("AttributeError", f)                           \* line 90, x.lower()
    ELSE [raised |-> "", cause |-> "",
          rows |-> SortByTime([ k \in DOMAIN f.rows |-> CleanRow(f.rows[k], k) ]),
          cols |-> (kept \ {"Notes", "Ethnicity_type"}) \cup {"Missing_Number_of_Arrests"},
          rate_object |-> IsObjectColumn(f.rows, "Rate"),
          gets |-> f.gets, printed |-> f.printed]

CleanFetchedRows(f) == CleanFetched(f, DropLowCardinality(f.rows))

\* clean_data: fetch, drop columns, sort, clean the count, regroup the ethnicity.
clean_data(rem) == CleanFetchedRows(fetch_data(rem))

---------------------------------------------------------------------------
(* filter_df *)

\* IsAllRow without the test of the missing flag.
IsAllRow_FlagIgnored(r) ==
    /\ r.Geography = "All" /\ r.Gender = "All" /\ r.Ethnicity = S_All
    /\ r.Age_Group = "All"

IsAllRow(r) ==
    /\ r.Geography = "All" /\ r.Gender = "All" /\ r.Ethnicity = S_All
    /\ r.Age_Group = "All" /\ r.Missing_Number_of_Arrests = 0

IsNotAllRow(r) ==
    /\ r.Ethnicity # S_All /\ r.Gender # "All"
    /\ r.Age_Group # "All" /\ r.Geography # "All"
    /\ r.Missing_Number_of_Arrests = 0

\* The columns both branches read as attributes of the table.
FilterColumns == {"Geography", "Gender", "Ethnicity", "Age_Group"}

FilterRaised(e, c) == [c EXCEPT !.raised = e, !.rows = <<>>, !.cols = {}]

\* FilterCleaned with the second mode spelled 'not_all'.
FilterCleaned_Underscore(c, how) ==
    IF c.raised # "" THEN c
    ELSE IF how = "all"
         THEN IF ~ (FilterColumns \subseteq c.cols)
              THEN FilterRaised("AttributeError", c)
              ELSE [c EXCEPT !.rows = SelectSeq(c.rows, IsAllRow)]
    ELSE IF how = "not_all"
         THEN IF ~ (FilterColumns \subseteq c.cols)
              THEN FilterRaised("AttributeError", c)
              ELSE [c EXCEPT !.rows = SelectSeq(c.rows, IsNotAllRow)]
    ELSE FilterRaised("Exception", c)

\* Lines 109-119 on the table clean_data returned (or the error it raised).
FilterCleaned(c, how) ==
    IF c.raised # "" THEN c                                          \* line 107
    ELSE IF how = "all"
         THEN IF ~ (FilterColumns \subseteq c.cols)
              THEN FilterRaised("AttributeError", c)
              ELSE [c EXCEPT !.rows = SelectSeq(c.rows, IsAllRow)]    \* lines 110-111
    ELSE IF how = "not all"
         THEN IF ~ (FilterColumns \subseteq c.cols)
              THEN FilterRaised("AttributeError", c)
              ELSE [c EXCEPT !.rows = SelectSeq(c.rows, IsNotAllRow)] \* lines 113-115
    ELSE FilterRaised("Exception", c)                                \* line 117

\* filter_df(how): clean_data(), then one of the two selections, else an Exception.
filter_df(rem, how) == FilterCleaned(clean_data(rem), how)

---------------------------------------------------------------------------
(* plot_data: pivots and series *)

\* The locals of a call of plot_data that did not return.
NoLocals == [computed |-> FALSE]


\* The plain strings of the model in code-point order (pandas sorts the pivot index,
\* the pivot columns and the group keys).
StringOrder == <<"10 - 17 years", "18+", "2016/17", "2017/18", "2018/19", "All",
                 "Cleveland", "Cumbria", "Dorset", "Essex", "Female", "Kent", "Lancashire",
                 "Male", "Merseyside", "Norfolk", "Surrey", "Sussex", "Warwickshire",
                 "Wiltshire">>

StrRank(x) == IndexOf(StringOrder, x)

RECURSIVE SortStrings(_)
SortStrings(S) ==
    IF S = {} THEN <<>>
    ELSE LET m == CHOOSE x \in S : \A y \in S : StrRank(x) <= StrRank(y)
         IN  <<m>> \o SortStrings(S \ {m})

RECURSIVE SortTexts(_)
SortTexts(S) ==
    IF S = {} THEN <<>>
    ELSE LET m == CHOOSE x \in S : \A y \in S \ {x} : StrLess(x, y)
         IN  <<m>> \o SortTexts(S \ {m})

\* The values of a pivot cell: text, a number, or missing.
Str(s) == [t |-> "str", s |-> s, n |-> 0]

Num(n) == [t |-> "int", s |-> <<>>, n |-> n]

Missing == [t |-> "nan", s |-> <<>>, n |-> 0]

\* aggfunc='sum' over the rates of a cell: text concatenates, numbers add.
RECURSIVE ConcatRates(_)
ConcatRates(rows) ==
    IF rows = <<>> THEN <<>> ELSE rows[1].Rate \o ConcatRates(Tail(rows))

RECURSIVE SumRates(_)
SumRates(rows) ==
    IF rows = <<>> THEN 0 ELSE ParseInt(rows[1].Rate) + SumRates(Tail(rows))

SumAsText(rows) == Str(ConcatRates(rows))

SumAsInt(rows) == Num(SumRates(rows))

\* The value of the column a pivot is spread over.
ColumnValue(r, by) ==
    CASE by = "Gender" -> r.Gender
      [] by = "Geography" -> r.Geography
      [] by = "Ethnicity" -> r.Ethnicity

SumOf(rows, dtype) == IF dtype = "int" THEN SumAsInt(rows) ELSE SumAsText(rows)

\* pivot_table(index='Time', columns=[by], values=rate, aggfunc='sum') with the index
\* and the columns already sorted; dtype is the dtype of the rate column.
PivotOf(rows, index, columns, by, dtype) ==
    [index |-> index,
     columns |-> columns,
     cells |-> [ k \in Range(index) \X Range(columns) |->
                   LET InCell(r) == r.Time = k[1] /\ ColumnValue(r, by) = k[2]
                   IN  IF \E i \in DOMAIN rows : InCell(rows[i])
                       THEN SumOf(SelectSeq(rows, InCell), dtype) ELSE Missing ]]

TimesOf(rows) == SortStrings({ rows[i].Time : i \in DOMAIN rows })

PivotByGender(rows) ==
    PivotOf(rows, TimesOf(rows), SortStrings({ rows[i].Gender : i \in DOMAIN rows }),
            "Gender", "object")

PivotByGeography(rows) ==
    PivotOf(rows, TimesOf(rows), SortStrings({ rows[i].Geography : i \in DOMAIN rows }),
            "Geography", "object")

PivotByEthnicity(rows) ==
    PivotOf(rows, TimesOf(rows), SortTexts({ rows[i].Ethnicity : i \in DOMAIN rows }),
            "Ethnicity", "int")

\* df.at[time, column] = value, which adds the row and the column when they are absent.
AtSet(pivot, time, column, value) ==
    [index |-> IF time \in Range(pivot.index) THEN pivot.index ELSE Append(pivot.index, time),
     columns |-> IF column \in Range(pivot.columns) THEN pivot.columns
                 ELSE Append(pivot.columns, column),
     cells |-> [ k \in (Range(pivot.index) \cup {time}) \X (Range(pivot.columns) \cup {column}) |->
                   IF k = <<time, column>> THEN value
                   ELSE IF k \in DOMAIN pivot.cells THEN pivot.cells[k] ELSE Missing ]]

\* go.Scatter(name=..., x=pivot.index.tolist(), y=pivot[column].tolist(), line color)
Scatter(name, pivot, column, color) ==
    [name |-> name,
     x |-> pivot.index,
     y |-> [ i \in DOMAIN pivot.index |-> pivot.cells[<<pivot.index[i], column>>] ],
     color |-> color]

Min(a, b) == IF a <= b THEN a ELSE b

Max(a, b) == IF a >= b THEN a ELSE b

\* The series of `for column, col in zip(pivot.columns, colors)`, with the palette
\* repeated from its start when the columns outnumber it.
ZipSeries_Cycled(pivot, colors) ==
    [ i \in 1 .. Len(pivot.columns) |->
        Scatter(pivot.columns[i], pivot, pivot.columns[i], colors[((i - 1) % Len(colors)) + 1]) ]

\* The series of `for column, col in zip(pivot.columns, colors)`: zip stops at the
\* shorter of the two.
ZipSeries(pivot, colors) ==
    [ i \in 1 .. Min(Len(pivot.columns), Len(colors)) |->
        Scatter(pivot.columns[i], pivot, pivot.columns[i], colors[i]) ]

Colors5 == <<"aquamarine", "yellow", "skyblue", "tomato", "magenta">>

Colors10 == <<"aquamarine", "yellow", "skyblue", "tomato", "magenta", "blue", "chartreuse",
              "cyan", "navajowhite", "hotpink">>

TitleOne == "Rate of Arrests Arrests by Gender per Year"

TitleTwo == "Rate of Arrests by Ethnicity per Year"

TitleThree == "Police Forces with Highest Rates of Arrest"

Figure(data, title) == [data |-> data, layout |-> [title |-> title]]

---------------------------------------------------------------------------
(* plot_data: the slices *)

\* lines 139-140
GenderSliceRow(r) ==
    /\ r.Missing_Number_of_Arrests = 0 /\ r.Ethnicity = S_All /\ r.Geography = "All"
    /\ r.Age_Group = "All" /\ r.Gender # "All"

\* lines 193-196
EthnicSliceRow(r) ==
    /\ r.Missing_Number_of_Arrests = 0 /\ r.Ethnicity # S_All /\ r.Age_Group = "All"
    /\ r.Geography = "All" /\ r.Gender = "All" /\ r.Ethnicity # S_Unreported

\* lines 239-240
ForcesSliceRow(r) ==
    /\ r.Missing_Number_of_Arrests = 0 /\ r.Ethnicity = S_All /\ r.Age_Group = "All"
    /\ r.Gender = "All" /\ r.Geography # "All"

\* line 241
RateIsNotNA(r) == ~ Contains(r.Rate, S_N_A)

\* lines 247-248 without the isin test
AggregateRow(r) ==
    /\ r.Missing_Number_of_Arrests = 0 /\ r.Ethnicity = S_All /\ r.Age_Group = "All"
    /\ r.Gender = "All"

\* lines 292-295 without the isin test
BreakdownRow(r) ==
    /\ r.Missing_Number_of_Arrests = 0 /\ r.Ethnicity # S_All /\ r.Age_Group = "All"
    /\ r.Gender = "All" /\ r.Ethnicity # S_Unreported

RowsIn(rows, names) ==
    LET In(r) == r.Geography \in names IN SelectSeq(rows, In)

\* astype(int) raises when a rate is no whole number.
CastFails(rows) == \E i \in DOMAIN rows : ~ IsIntText(rows[i].Rate)

---------------------------------------------------------------------------
(* plot_data: the ranking of the forces *)

\* groupby(['Geography'])[rate].mean(): per force the sum and the number of its rates.
MeanRates(rows) ==
    [ g \in { rows[i].Geography : i \in DOMAIN rows } |->
        LET Of(r) == r.Geography = g
        IN  [sum |-> SumRates(SelectSeq(rows, Of)), count |-> Len(SelectSeq(rows, Of))] ]

\* mean(a) >= mean(b)
MeanGE(a, b) == a.sum * b.count >= b.sum * a.count

\* sort_values(ascending=False): every order of the forces by descending mean; the
\* order among equal means is left to the sort.
RECURSIVE Rankings(_, _)
Rankings(S, means) ==
    IF S = {} THEN {<<>>}
    ELSE UNION { { <<m>> \o rest : rest \in Rankings(S \ {m}, means) } :
                   m \in { x \in S : \A y \in S : MeanGE(means[x], means[y]) } }

RankingsOf(means) == Rankings(DOMAIN means, means)

\* list[:n]
FirstN(list, n) == SubSeq(list, 1, Min(n, Len(list)))

\* list[-n:]
LastN(list, n) == SubSeq(list, Max(1, Len(list) - n + 1), Len(list))

\* line 244
Top10Forces(ranking) == FirstN(ranking, 10)

\* line 245
Bottom10Forces(ranking) == LastN(ranking, 10)

\* line 290 with a slice of five
Top5Forces_Five(ranking) == FirstN(ranking, 5)

\* line 290
Top5Forces(ranking) == FirstN(ranking, 6)

\* line 291
Bottom5Forces(ranking) == LastN(ranking, 6)

---------------------------------------------------------------------------
(* plot_data *)

\* An exception leaves plot_data: no chart list, no locals.
PlotRaised(e, c, n) ==
    [raised |-> e, figures |-> <<>>, gets |-> n,
     printed |-> IF n = 1 THEN c.printed ELSE c.printed \o c.printed \o c.printed,
     locals |-> NoLocals]

\* astype(int) raising with the charts built so far returned to the caller.
CastFailure_KeepsCharts(built, c) ==
    [raised |-> "ValueError", figures |-> built, gets |-> 3,
     printed |-> c.printed \o c.printed \o c.printed, locals |-> NoLocals]

\* astype(int) raising at line 197, 242 or 296: the charts built so far are lost.
CastFailure(built, c) == PlotRaised("ValueError", c, 3)

\* lines 301-336: the chart of one force of the group-by.
ForceFigure(rows, name) ==
    Figure(ZipSeries(PivotByEthnicity(RowsIn(rows, {name})), Colors5), name)

\* lines 345-351 with the two loops in the other order
AppendForces_BottomFirst(fixed, forces_dict, top5_forces, bottom5_forces) ==
    LET InTop(f) == f.layout.title \in Range(top5_forces)
        InBottom(f) == f.layout.title \in Range(bottom5_forces)
    IN  fixed \o SelectSeq(forces_dict, InBottom) \o SelectSeq(forces_dict, InTop)

\* lines 340-351: the three fixed charts, then the force charts in top5, then those in
\* bottom5, each time in the order of forces_dict.
AppendForces(fixed, forces_dict, top5_forces, bottom5_forces) ==
    LET InTop(f) == f.layout.title \in Range(top5_forces)
        InBottom(f) == f.layout.title \in Range(bottom5_forces)
    IN  fixed \o SelectSeq(forces_dict, InTop) \o SelectSeq(forces_dict, InBottom)

\* lines 297-353, given the rows of the per-force slice after the cast and their groups
\* in group-by order.
PlotAssemble(c, fixed, ranking, unpatched, patched, breakdown, groups) ==
    [raised |-> "",
     figures |-> AppendForces(fixed,
                              [ i \in DOMAIN groups |-> ForceFigure(breakdown, groups[i]) ],
                              Top5Forces(ranking), Bottom5Forces(ranking)),
     gets |-> 3,
     printed |-> c.printed \o c.printed \o c.printed,
     locals |-> [computed |-> TRUE,
                 df |-> c.rows,
                 ranking |-> ranking,
                 top10_forces |-> Top10Forces(ranking),
                 bottom10_forces |-> Bottom10Forces(ranking),
                 top5_forces |-> Top5Forces(ranking),
                 bottom5_forces |-> Bottom5Forces(ranking),
                 unpatched_pivot |-> unpatched,
                 df_top10_forces_pivot |-> patched,
                 groups |-> groups]]

\* lines 292-296: the per-force slice and its cast.
PlotBreakdown(c, fixed, ranking, unpatched, patched, breakdown) ==
    IF CastFails(breakdown) THEN CastFailure(fixed, c)
    ELSE PlotAssemble(c, fixed, ranking, unpatched, patched, breakdown,
                      SortStrings({ breakdown[i].Geography : i \in DOMAIN breakdown }))

\* lines 250-296, given the pivot of the top-10 rows before the patch.
PlotPatched(c, two, ranking, unpatched, patched) ==
    PlotBreakdown(c, Append(two, Figure(ZipSeries(patched, Colors10), TitleThree)),
                  ranking, unpatched, patched,
                  RowsIn(SelectSeq(c.rows, BreakdownRow),
                         Range(Top5Forces(ranking)) \cup Range(Bottom5Forces(ranking))))

PlotTop10(c, two, ranking, unpatched) ==
    PlotPatched(c, two, ranking, unpatched, AtSet(unpatched, "2017/18", "Lancashire", Num(14)))

\* lines 244-249 for one outcome of the sort.
PlotRanked(c, two, ranking) ==
    PlotTop10(c, two, ranking,
              PivotByGeography(RowsIn(SelectSeq(c.rows, AggregateRow),
                                      Range(Top10Forces(ranking)))))

\* lines 241-243: the rows without 'N/A', their cast, the ranking.
PlotForces(c, two, forces) ==
    IF CastFails(forces) THEN { CastFailure(two, c) }
    ELSE { PlotRanked(c, two, ranking) : ranking \in RankingsOf(MeanRates(forces)) }

\* lines 193-241, given the rows of the by-ethnicity slice.
PlotEthnicity(c, one, ethnic) ==
    IF CastFails(ethnic) THEN { CastFailure(one, c) }                       \* line 197
    ELSE IF ~ c.rate_object THEN { PlotRaised("AttributeError", c, 3) }     \* line 241, .str
    ELSE IF \E i \in DOMAIN c.rows : c.rows[i].Rate = NaN
         THEN { PlotRaised("TypeError", c, 3) }                             \* line 241, ~
    ELSE PlotForces(c, Append(one, Figure(ZipSeries(PivotByEthnicity(ethnic), Colors5), TitleTwo)),
                    SelectSeq(SelectSeq(c.rows, ForcesSliceRow), RateIsNotNA))

\* lines 139-190, given the pivot by gender.
PlotGender(c, gender_pivot) ==
    IF ~ ({"Female", "Male"} \subseteq Range(gender_pivot.columns))
    THEN { PlotRaised("AttributeError", c, 3) }                             \* lines 146, 161
    ELSE PlotEthnicity(c,
                       << Figure(<< Scatter("Female", gender_pivot, "Female", "aquamarine"),
                                    Scatter("Male", gender_pivot, "Male", "yellow") >>,
                                 TitleOne) >>,
                       SelectSeq(c.rows, EthnicSliceRow))

\* lines 132-141, given what clean_data returns for the table the URL serves.
PlotCleaned(c) ==
    IF c.raised # "" THEN { PlotRaised(c.raised, c, 1) }                    \* line 132
    ELSE IF ~ (FilterColumns \subseteq c.cols)
         THEN { PlotRaised("AttributeError", c, 1) }                        \* line 132
    ELSE IF "Rate" \notin c.cols THEN { PlotRaised("KeyError", c, 3) }      \* line 141
    ELSE PlotGender(c, PivotByGender(SelectSeq(c.rows, GenderSliceRow)))

\* plot_data: the outcomes of one call (one per outcome of the sort of equal means).
plot_data(rem) == PlotCleaned(clean_data(rem))

\* views.index, line 13: the position of each chart in the list ('figure-' and that
\* position is its id).
FigureIds(figs) == [ i \in DOMAIN figs |-> i - 1 ]

---------------------------------------------------------------------------
(* Bounds of the inputs *)

\* Longest arrest-count text of the rows whose count varies.
MaxCountLen == 2

\* Rows of the filter tables whose dimensions vary.
FilterVarRows == 2

\* Police forces whose rows vary in the tables for the charts (one more force has the
\* same rows in all of them).
NumForces == 6

---------------------------------------------------------------------------
(* The tables the URL may serve *)

RECURSIVE TextsUpTo(_, _)
TextsUpTo(alphabet, n) ==
    IF n = 0 THEN {<<>>}
    ELSE LET shorter == TextsUpTo(alphabet, n - 1)
         IN  shorter \cup { Append(s, c) : s \in shorter, c \in alphabet }

\* Arrest counts as the CSV spells them: digits, thousands commas, a dash for none.
CountAlphabet == {"0", "1", ",", "-"}

CountTexts == TextsUpTo(CountAlphabet, MaxCountLen)

\* Ethnicity values: the names the code lists, other names, and their case variants.
EthnicityNames ==
    AsianList \cup BlackList \cup WhiteList \cup OtherList
        \cup {S_Mixed, S_Mixed_White_Asian, S_All, S_Unreported, S_Arab}

EthnicityTexts ==
    EthnicityNames \cup { Lower(e) : e \in EthnicityNames } \cup { Upper(e) : e \in EthnicityNames }

\* The Ethnicity_type column is determined by the ethnicity.
EthnicityType(e) == IF e = S_All THEN "All" ELSE "ONS 2011 5+1"

RawRow(time, geography, gender, age, ethnicity, arrests, rate) ==
    [Time |-> time, Geography |-> geography, Gender |-> gender, Age_Group |-> age,
     Ethnicity |-> ethnicity, Ethnicity_type |-> EthnicityType(ethnicity), Notes |-> "NaN",
     Number_of_arrests |-> arrests, Rate |-> rate]

\* Tables for the cleaning: one row whose count and ethnicity vary freely, one whose
\* count varies, one fixed row; not in time order.
CleanTables ==
    { << RawRow("2017/18", "All", "All", "All", e, c1, <<"1","2">>),
         RawRow("2016/17", "Essex", "Male", "18+", S_All, c2, <<"7">>),
         RawRow("2017/18", "Kent", "Female", "All", S_White_Irish, <<"7">>, <<"N","/","A","*">>) >> :
        e \in EthnicityTexts, c1 \in CountTexts,
        c2 \in {<<"7">>, <<"1",",","0","0","0">>, <<"-">>} }

\* A row of a filter table: all four dimensions aggregated, all but one, one, or none,
\* and the count present or not.
FilterRowChoices ==
    { RawRow("2017/18",
             IF "Geography" \in broken THEN "Essex" ELSE "All",
             IF "Gender" \in broken THEN "Male" ELSE "All",
             IF "Age_Group" \in broken THEN "18+" ELSE "All",
             IF "Ethnicity" \in broken THEN S_Indian ELSE S_All,
             c, <<"1","2">>) :
        broken \in { b \in SUBSET FilterColumns : Cardinality(b) # 2 },
        c \in {<<"1",",","0">>, <<"-">>} }

RECURSIVE RowSeqs(_, _)
RowSeqs(choices, n) ==
    IF n = 0 THEN {<<>>}
    ELSE { Append(s, r) : s \in RowSeqs(choices, n - 1), r \in choices }

FilterTables ==
    { <<RawRow("2016/17", "Essex", "Male", "18+", S_Indian, <<"7">>, <<"7">>)>> \o s :
        s \in RowSeqs(FilterRowChoices, FilterVarRows) }

\* A table for the runs in which the download fails.
SmallTables == { <<RawRow("2016/17", "All", "All", "All", S_All, <<"7">>, <<"7">>)>> }

\* The decimal text of a number below 100.
ToText(n) == IF n < 10 THEN <<Digits[n + 1]>> ELSE <<Digits[(n \div 10) + 1], Digits[(n % 10) + 1]>>

S_1000 == <<"1",",","0","0","0">>

S_NA_Star == <<"N","/","A","*">>

\* A row aggregated over gender and age group.
AggRow(time, geography, ethnicity, rate) ==
    RawRow(time, geography, "All", "All", ethnicity, S_1000, rate)

GenderRow(time, gender, arrests, rate) ==
    RawRow(time, "All", gender, "All", S_All, arrests, rate)

\* The rows of England and Wales as a whole that every chart table holds; the last
\* one has no arrest count.
NationalRows ==
    << AggRow("2017/18", "All", S_All, ToText(13)),
       AggRow("2016/17", "All", S_All, ToText(12)),
       RawRow("2016/17", "All", "All", "10 - 17 years", S_All, ToText(70), S_NA_Star),
       GenderRow("2016/17", "Male", S_1000, ToText(7)),
       GenderRow("2017/18", "Male", S_1000, ToText(8)),
       GenderRow("2018/19", "Male", <<"-">>, ToText(9)) >>

FemaleRows ==
    << GenderRow("2017/18", "Female", S_1000, ToText(6)),
       GenderRow("2016/17", "Female", S_1000, ToText(5)) >>

TwoEthnicities ==
    << AggRow("2016/17", "All", S_White_British, ToText(11)),
       AggRow("2016/17", "All", S_Indian, ToText(14)),
       AggRow("2017/18", "All", S_Unreported, S_NA_Star) >>

SixEthnicities ==
    << AggRow("2016/17", "All", S_Indian, ToText(1)),
       AggRow("2016/17", "All", S_Black_Caribbean, ToText(2)),
       AggRow("2016/17", "All", S_White_Irish, ToText(3)),
       AggRow("2016/17", "All", S_Chinese, ToText(4)),
       AggRow("2016/17", "All", S_Mixed_White_Asian, ToText(5)),
       AggRow("2016/17", "All", S_Arab, ToText(6)),
       AggRow("2017/18", "All", S_Pakistani, ToText(7)) >>

\* The national rows and the extra rows of each variant of the chart tables.
VariantRows(v) ==
    CASE v = "two" -> NationalRows \o FemaleRows \o TwoEthnicities
      [] v = "six" -> NationalRows \o FemaleRows \o SixEthnicities
      [] v = "no_female" -> NationalRows \o TwoEthnicities
      [] v = "bad_ethnic" ->
           NationalRows \o FemaleRows \o TwoEthnicities
             \o << AggRow("2017/18", "All", S_Chinese, <<"1",",","2">>) >>
      [] v = "bad_rank" ->
           NationalRows \o FemaleRows \o TwoEthnicities
             \o << AggRow("2016/17", "Wiltshire", S_All, <<"1",",","2">>) >>
      [] v = "bad_breakdown" ->
           NationalRows \o FemaleRows \o TwoEthnicities
             \o << AggRow("2016/17", "Wiltshire", S_All, ToText(9)),
                   AggRow("2016/17", "Wiltshire", S_Indian, <<"1",",","2">>) >>

GoodVariants == {"two", "six"}

FailingVariants == {"no_female", "bad_ethnic", "bad_rank", "bad_breakdown"}

ForceNames == <<"Cleveland", "Cumbria", "Dorset", "Essex", "Kent", "Lancashire", "Merseyside",
                "Norfolk", "Surrey", "Sussex">>

Forces == SubSeq(ForceNames, 1, NumForces)

\* What the table holds about a force: one year with its ethnic breakdown; both years
\* with a breakdown; one year and an 'N/A' year without any breakdown; or nothing.
Profiles == {"single", "both", "bare"}

AllProfiles == Profiles \cup {"absent"}

ForceRows(f, i, profile) ==
    CASE profile = "absent" -> <<>>
      [] profile = "single" ->
           << AggRow("2016/17", f, S_All, ToText(2 * i)),
              AggRow("2016/17", f, S_White_British, ToText(i)),
              AggRow("2016/17", f, S_Indian, ToText(i + 1)) >>
      [] profile = "both" ->
           << AggRow("2017/18", f, S_All, ToText(((i + 1) \div 2) + 1)),
              AggRow("2016/17", f, S_All, ToText((i + 1) \div 2)),
              AggRow("2017/18", f, S_Black_African, ToText(i)) >>
      [] profile = "bare" ->
           << AggRow("2016/17", f, S_All, ToText(15 - i)),
              AggRow("2017/18", f, S_All, S_NA_Star) >>

RECURSIVE AllForceRows(_, _)
AllForceRows(profiles, n) ==
    IF n = 0 THEN <<>>
    ELSE AllForceRows(profiles, n - 1) \o ForceRows(Forces[n], n, profiles[Forces[n]])

ChartTable(v, profiles) == VariantRows(v) \o AllForceRows(profiles, NumForces)

\* The rows of a force of middle rate, with an ethnic breakdown.
WarwickshireRows ==
    << AggRow("2016/17", "Warwickshire", S_All, ToText(9)),
       AggRow("2016/17", "Warwickshire", S_White_British, ToText(4)),
       AggRow("2017/18", "Warwickshire", S_Indian, ToText(5)) >>

\* Tables for the charts: every combination of the profiles of present forces with
\* the national rows of variant "two" and the rows of Warwickshire, and one profile for
\* all the forces under every variant.
PlotTables ==
    { ChartTable("two", p) \o WarwickshireRows : p \in [Range(Forces) -> Profiles] }
      \cup { ChartTable(v, [f \in Range(Forces) |-> q]) :
                v \in GoodVariants \cup FailingVariants, q \in AllProfiles }

Remotes(tables) ==
    [kind : {"ok"}, rows : tables] \cup [kind : FetchKinds \ {"ok"}, rows : SmallTables]

---------------------------------------------------------------------------
(* The calls *)

FilterModes == {"all", "not all"}

\* Values a caller may pass as `how`.
HowValues == FilterModes \cup {"not_all", "bogus"}

NoViews == [ m \in FilterModes |-> [returned |-> FALSE, rows |-> <<>>] ]

Idle ==
    /\ call = "none" /\ how_arg = "" /\ err = "" /\ cause = "" /\ returned = ""
    /\ df = <<>> /\ cols = {} /\ views = NoViews /\ figures = <<>> /\ ids = <<>>
    /\ gets = 0 /\ printed = <<>> /\ locals = NoLocals

\* A caller calls fetch_data(csv_url).
FetchData ==
    \E f \in {fetch_data(remote)} :
        /\ call' = "fetch_data" /\ how_arg' = ""
        /\ err' = f.raised /\ cause' = f.cause /\ returned' = f.returns
        /\ df' = f.rows
        /\ cols' = IF f.returns = "df" THEN RawColumns ELSE {}
        /\ gets' = f.gets /\ printed' = f.printed
        /\ figures' = <<>> /\ ids' = <<>> /\ locals' = NoLocals
        /\ UNCHANGED <<remote, views>>

\* A caller calls clean_data().
CleanData ==
    \E c \in {clean_data(remote)} :
        /\ call' = "clean_data" /\ how_arg' = ""
        /\ err' = c.raised /\ cause' = c.cause
        /\ returned' = IF c.raised = "" THEN "df" ELSE ""
        /\ df' = c.rows /\ cols' = c.cols
        /\ gets' = c.gets /\ printed' = c.printed
        /\ figures' = <<>> /\ ids' = <<>> /\ locals' = NoLocals
        /\ UNCHANGED <<remote, views>>

\* A caller calls filter_df(how) and keeps the view it gets.
FilterDf(how) ==
    \E v \in {filter_df(remote, how)} :
        /\ call' = "filter_df" /\ how_arg' = how
        /\ err' = v.raised /\ cause' = v.cause
        /\ returned' = IF v.raised = "" THEN "df" ELSE ""
        /\ df' = v.rows /\ cols' = v.cols
        /\ views' = IF v.raised = "" THEN [views EXCEPT ![how] = [returned |-> TRUE, rows |-> v.rows]]
                     ELSE views
        /\ gets' = v.gets /\ printed' = v.printed
        /\ figures' = <<>> /\ ids' = <<>> /\ locals' = NoLocals
        /\ UNCHANGED remote

\* A request for the page: index() calls plot_data() and numbers the charts. No state
\* is carried from one request to the next, so a behaviour holds one request.
Index ==
    \E out \in plot_data(remote) :
        /\ call = "none"
        /\ call' = "index" /\ how_arg' = ""
        /\ err' = out.raised /\ cause' = ""
        /\ returned' = IF out.raised = "" THEN "figures" ELSE ""
        /\ figures' = out.figures
        /\ ids' = IF out.raised = "" THEN FigureIds(out.figures) ELSE <<>>
        /\ gets' = out.gets /\ printed' = out.printed
        /\ locals' = out.locals
        /\ df' = <<>> /\ cols' = {}
        /\ UNCHANGED <<remote, views>>

InitClean == remote \in Remotes(CleanTables) /\ Idle

NextClean == FetchData \/ CleanData

SpecClean == InitClean /\ [][NextClean]_vars

InitFilter == remote \in Remotes(FilterTables) /\ Idle

NextFilter == \E how \in HowValues : FilterDf(how)

SpecFilter == InitFilter /\ [][NextFilter]_vars

InitPlot == remote \in Remotes(PlotTables) /\ Idle

NextPlot == Index

SpecPlot == InitPlot /\ [][NextPlot]_vars

---------------------------------------------------------------------------
(* Properties of clean_data *)

CleanReturned == call = "clean_data" /\ err = ""

\* The CSV cell a cleaned row's value came from.
RawArrests(r) == remote.rows[r.csv_line].Number_of_arrests

RawEthnicity(r) == remote.rows[r.csv_line].Ethnicity

\* C2: in every row of the table clean_data returns, the arrest count is an integer,
\* the missing flag is set exactly when the count is the sentinel -1, and the count is
\* -1 exactly when the raw count text holds no digit.
C2_CountAndFlag ==
    CleanReturned =>
        \A i \in DOMAIN df :
            /\ df[i].Number_of_arrests \in Int
            /\ df[i].Missing_Number_of_Arrests \in {0, 1}
            /\ (df[i].Missing_Number_of_Arrests = 1) <=> (df[i].Number_of_arrests = 0 - 1)
            /\ (df[i].Number_of_arrests = 0 - 1) <=>
                   (\A k \in DOMAIN RawArrests(df[i]) : ~ IsDigit(RawArrests(df[i])[k]))

\* A cleaned table with a flagged row whose raw count was a non-empty text without
\* digits, and an unflagged row whose raw count mixed digits and other characters.
C2_Witness ==
    /\ CleanReturned
    /\ \E i \in DOMAIN df :
          /\ df[i].Missing_Number_of_Arrests = 1
          /\ RawArrests(df[i]) # <<>>
    /\ \E i \in DOMAIN df :
          /\ df[i].Missing_Number_of_Arrests = 0
          /\ df[i].Number_of_arrests = 1000
          /\ \E k \in DOMAIN RawArrests(df[i]) : ~ IsDigit(RawArrests(df[i])[k])

LowerAll(list) == { Lower(e) : e \in list }

ListedNames == AsianList \cup BlackList \cup WhiteList \cup OtherList

\* C3 as stated: the regrouping matches every list without regard to letter case.
C3_CaseInsensitiveLists ==
    CleanReturned =>
        \A i \in DOMAIN df :
            LET x == RawEthnicity(df[i])
                y == df[i].Ethnicity
            IN  /\ Lower(x) \in LowerAll(AsianList) => y = S_Asian
                /\ Lower(x) \in LowerAll(BlackList) => y = S_Black
                /\ Lower(x) \in LowerAll(WhiteList) => y = S_White
                /\ Lower(x) \in LowerAll(OtherList) => y = S_Other
                /\ (Lower(x) \notin LowerAll(ListedNames) /\ Contains(Lower(x), S_mixed))
                      => y = S_Mixed
                /\ (Lower(x) \notin LowerAll(ListedNames) /\ ~ Contains(Lower(x), S_mixed))
                      => y = x

\* C3 amended: the four lists are matched exactly as spelled (case-sensitive); only the
\* 'mixed' substring test ignores letter case; every other value is returned unchanged.
C3_ExactListsThenMixed ==
    CleanReturned =>
        \A i \in DOMAIN df :
            LET x == RawEthnicity(df[i])
                y == df[i].Ethnicity
            IN  /\ x \in AsianList => y = S_Asian
                /\ x \in BlackList => y = S_Black
                /\ x \in WhiteList => y = S_White
                /\ x \in OtherList => y = S_Other
                /\ (x \notin ListedNames /\ Contains(Lower(x), S_mixed)) => y = S_Mixed
                /\ (x \notin ListedNames /\ ~ Contains(Lower(x), S_mixed)) => y = x

\* A cleaned table in which a listed name in another letter case passed through
\* unchanged, next to a listed name that was regrouped.
C3_Witness ==
    /\ CleanReturned
    /\ \E i \in DOMAIN df :
          /\ RawEthnicity(df[i]) \notin ListedNames
          /\ Lower(RawEthnicity(df[i])) \in LowerAll(ListedNames)
          /\ df[i].Ethnicity = RawEthnicity(df[i])
    /\ \E i \in DOMAIN df :
          /\ RawEthnicity(df[i]) = S_White_Irish
          /\ df[i].Ethnicity = S_White

---------------------------------------------------------------------------
(* Properties of filter_df *)

\* The cleaned table the views are taken from.
Cleaned == clean_data(remote).rows

AllDims(r) ==
    r.Geography = "All" /\ r.Gender = "All" /\ r.Ethnicity = S_All /\ r.Age_Group = "All"

NoDimAll(r) ==
    r.Geography # "All" /\ r.Gender # "All" /\ r.Ethnicity # S_All /\ r.Age_Group # "All"

\* C4: the 'all' view and the 'not all' view of a cleaned table share no row, neither
\* holds a row whose missing flag is set, the 'all' view holds exactly the unflagged
\* rows with all four dimensions 'All' and the other exactly the unflagged rows with none.
C4_ViewsDisjointExact ==
    /\ views["all"].returned =>
          Range(views["all"].rows) =
              { r \in Range(Cleaned) : AllDims(r) /\ r.Missing_Number_of_Arrests = 0 }
    /\ views["not all"].returned =>
          Range(views["not all"].rows) =
              { r \in Range(Cleaned) : NoDimAll(r) /\ r.Missing_Number_of_Arrests = 0 }
    /\ \A m \in FilterModes : \A i \in DOMAIN views[m].rows :
          views[m].rows[i].Missing_Number_of_Arrests = 0
    /\ Range(views["all"].rows) \cap Range(views["not all"].rows) = {}

\* Both views were returned and are not empty, and the cleaned table holds flagged rows
\* that the dimensions alone would have put into each view.
C4_Witness ==
    /\ views["all"].returned /\ views["all"].rows # <<>>
    /\ views["not all"].returned /\ views["not all"].rows # <<>>
    /\ \E r \in Range(Cleaned) : AllDims(r) /\ r.Missing_Number_of_Arrests = 1

\* C5 as stated: every mode other than 'all' and 'not_all' raises the error, and the
\* modes 'all' and 'not_all' never do.
C5_ModesAllAndNot_All ==
    call = "filter_df" =>
        /\ how_arg \notin {"all", "not_all"} => (err = "Exception" /\ returned = "")
        /\ how_arg \in {"all", "not_all"} => err # "Exception"

\* C5 amended: the two modes are 'all' and 'not all'; once clean_data has returned the
\* table, any other mode raises the Exception and returns no view, and the two modes
\* never raise it.
C5_ModesAllAndNotAll ==
    call = "filter_df" =>
        /\ (how_arg \notin {"all", "not all"} /\ clean_data(remote).raised = "")
              => (err = "Exception" /\ returned = "" /\ df = <<>>)
        /\ how_arg \in {"all", "not all"} => err # "Exception"

\* The mode 'not_all' raised the Exception on a table that the mode 'not all' had
\* returned a view of.
C5_Witness ==
    /\ call = "filter_df" /\ how_arg = "not_all"
    /\ err = "Exception" /\ returned = ""
    /\ views["not all"].returned /\ views["not all"].rows # <<>>

---------------------------------------------------------------------------
(* Properties of fetch_data as the page request sees it *)

\* C1 as stated: a failed download reaches the caller of plot_data as one FetchError
\* that carries the underlying cause, after exactly one GET and with no chart list.
C1_FetchErrorPropagates ==
    (call = "index" /\ remote.kind # "ok") =>
        /\ err = "FetchError"
        /\ cause = FetchCause(remote.kind)
        /\ figures = <<>>
        /\ gets = 1
        /\ printed = <<>>

---------------------------------------------------------------------------
(* Properties of plot_data *)

PlotReturned == call = "index" /\ err = ""

\* The ranked forces whose breakdown charts the page shows.
ShownForces == Range(FirstN(locals.ranking, 6)) \cup Range(LastN(locals.ranking, 6))

\* The geographies of the group-by of line 297, in its iteration order, taken from the
\* cleaned table.
GroupsPresent ==
    SortStrings({ r.Geography : r \in { x \in Range(locals.df) :
                                          BreakdownRow(x) /\ x.Geography \in ShownForces } })

\* The titles of the per-force charts as the ordering contract lists them, given the
\* groups in iteration order.
PartitionedTitles(groups) ==
    LET InTop(g) == g \in Range(FirstN(locals.ranking, 6))
        InBottom(g) == g \in Range(LastN(locals.ranking, 6))
    IN  SelectSeq(groups, InTop) \o SelectSeq(groups, InBottom)

TitlesFrom(figs, expected) ==
    /\ Len(figs) = 3 + Len(expected)
    /\ \A i \in DOMAIN expected : figs[3 + i].layout.title = expected[i]

SeriesNames(fig) == [ k \in DOMAIN fig.data |-> fig.data[k].name ]

\* C6: a returned list is the by-gender chart, the by-ethnicity chart, the top-10
\* chart, then the charts of the groups that are in top5 and then of those in bottom5,
\* each part in group-by order, and the chart at position i gets the identifier i.
C6_OutputOrder ==
    PlotReturned =>
        /\ Len(figures) >= 3
        /\ figures[1].layout.title = TitleOne
        /\ SeriesNames(figures[1]) = <<"Female", "Male">>
        /\ figures[2].layout.title = TitleTwo
        /\ figures[3].layout.title = TitleThree
        /\ TitlesFrom(figures, PartitionedTitles(GroupsPresent))
        /\ ids = [ i \in DOMAIN figures |-> i - 1 ]

\* A returned list whose per-force charts are not in rank order, with a force that is
\* only in top5, a force that is only in bottom5 and a force shown in both parts.
C6_Witness ==
    /\ PlotReturned
    /\ Len(figures) > 6
    /\ Len(locals.ranking) > 6
    /\ locals.ranking[1] \in Range(locals.groups)
    /\ locals.ranking[Len(locals.ranking)] \in Range(locals.groups)
    /\ \E i, j \in 4 .. Len(figures) : i < j /\ figures[i].layout.title = figures[j].layout.title
    /\ \E i, j \in DOMAIN locals.ranking :
          /\ i < j
          /\ StrRank(locals.ranking[j]) < StrRank(locals.ranking[i])
          /\ {locals.ranking[i], locals.ranking[j]} \subseteq Range(locals.groups)

ChartCount(groups) ==
    3 + Cardinality(Range(FirstN(locals.ranking, 6)) \cap Range(groups))
      + Cardinality(Range(LastN(locals.ranking, 6)) \cap Range(groups))

RawEthnicCast(r) ==
    /\ CleanArrests(r.Number_of_arrests).flag = 0
    /\ r.Ethnicity \notin {S_All, S_Unreported}
    /\ r.Age_Group = "All" /\ r.Geography = "All" /\ r.Gender = "All"

\* A row of the CSV whose rate the ranking slice casts (lines 239-242).
RawForcesCast(r) ==
    /\ CleanArrests(r.Number_of_arrests).flag = 0
    /\ r.Ethnicity = S_All
    /\ r.Age_Group = "All" /\ r.Gender = "All" /\ r.Geography # "All"
    /\ ~ Contains(r.Rate, S_N_A)

\* C8: a rate that is no whole number in a slice that is cast makes the request fail,
\* and a failed request has no chart and no identifier: the list is whole or absent.
C8_CastFailureAborts ==
    call = "index" =>
        /\ (\E i \in DOMAIN remote.rows :
               /\ RawEthnicCast(remote.rows[i]) \/ RawForcesCast(remote.rows[i])
               /\ ~ IsIntText(remote.rows[i].Rate)) => err # ""
        /\ err = "" =>
              \A r \in Range(locals.df) :
                  (\/ EthnicSliceRow(r)
                   \/ (ForcesSliceRow(r) /\ RateIsNotNA(r))
                   \/ (BreakdownRow(r) /\ r.Geography \in ShownForces)) => IsIntText(r.Rate)
        /\ err # "" => (figures = <<>> /\ ids = <<>> /\ returned = "")

\* The cast of the per-force slice failed, after the three fixed charts were built, and
\* nothing was returned.
C8_Witness ==
    /\ call = "index" /\ err = "ValueError"
    /\ figures = <<>> /\ ids = <<>>
    /\ \E i \in DOMAIN remote.rows :
          /\ remote.rows[i].Geography = "Wiltshire"
          /\ remote.rows[i].Ethnicity = S_Indian
          /\ ~ IsIntText(remote.rows[i].Rate)
    /\ \A i \in DOMAIN remote.rows :
          (RawEthnicCast(remote.rows[i]) \/ RawForcesCast(remote.rows[i]))
              => IsIntText(remote.rows[i].Rate)

\* The ethnicity columns of the pivot of the by-ethnicity chart.
EthnicColumns ==
    SortTexts({ r.Ethnicity : r \in { x \in Range(locals.df) : EthnicSliceRow(x) } })

\* The ethnicity columns of the pivot of the chart of one force.
ForceColumns(name) ==
    SortTexts({ r.Ethnicity : r \in { x \in Range(locals.df) :
                                        BreakdownRow(x) /\ x.Geography = name } })

\* One series per column, the palette repeating from its start.
SeriesWrap(data, columns) ==
    /\ Len(data) = Len(columns)
    /\ \A k \in DOMAIN data :
          /\ data[k].name = columns[k]
          /\ data[k].color = Colors5[((k - 1) % Len(Colors5)) + 1]

\* One series for each of the first five columns, the k-th in the k-th color.
SeriesZip(data, columns) ==
    /\ Len(data) = Min(Len(columns), Len(Colors5))
    /\ \A k \in DOMAIN data :
          /\ data[k].name = columns[k]
          /\ data[k].color = Colors5[k]

\* C9 as stated: the by-ethnicity chart and every per-force chart have one series per
\* ethnicity column, with the colors wrapping around beyond the fifth column.
C9_OneSeriesPerColumn ==
    PlotReturned =>
        /\ SeriesWrap(figures[2].data, EthnicColumns)
        /\ \A i \in 4 .. Len(figures) :
              SeriesWrap(figures[i].data, ForceColumns(figures[i].layout.title))

\* C9 amended: these charts have one series for each of the first five ethnicity
\* columns only, the k-th column in the k-th color; a sixth column gets no series.
C9_SeriesForFirstFive ==
    PlotReturned =>
        /\ SeriesZip(figures[2].data, EthnicColumns)
        /\ \A i \in 4 .. Len(figures) :
              SeriesZip(figures[i].data, ForceColumns(figures[i].layout.title))

\* A by-ethnicity chart of five series over a pivot of six ethnicity columns.
C9_Witness ==
    /\ PlotReturned
    /\ Len(figures[2].data) = 5
    /\ \E i \in DOMAIN locals.df :
          /\ EthnicSliceRow(locals.df[i])
          /\ \A k \in DOMAIN figures[2].data :
                figures[2].data[k].name # locals.df[i].Ethnicity

\* C10 as stated: the patch turns the missing cell ('2017/18', 'Lancashire') of the
\* top-10 pivot into 14 and changes nothing else: no row, no column, no other cell, no
\* series of a geography outside the top-10 list.
C10_PatchOnlyMissingCell ==
    PlotReturned =>
        /\ locals.df_top10_forces_pivot.index = locals.unpatched_pivot.index
        /\ locals.df_top10_forces_pivot.columns = locals.unpatched_pivot.columns
        /\ <<"2017/18", "Lancashire">> \in DOMAIN locals.unpatched_pivot.cells
        /\ locals.unpatched_pivot.cells[<<"2017/18", "Lancashire">>] = Missing
        /\ locals.df_top10_forces_pivot.cells[<<"2017/18", "Lancashire">>] = Num(14)
        /\ \A k \in DOMAIN locals.unpatched_pivot.cells :
              k # <<"2017/18", "Lancashire">>
                  => locals.df_top10_forces_pivot.cells[k] = locals.unpatched_pivot.cells[k]
        /\ \A k \in DOMAIN figures[3].data :
              figures[3].data[k].name \in Range(locals.top10_forces)

=============================================================================
